---- MODULE Spec2Model ----
(***************************************************************************)
(* A model of get_liftie_data.ino: an ESP32 sketch that polls a JSON lift  *)
(* status API and shows one LED per lift on a WS2812B strip.               *)
(*                                                                         *)
(* State: the frame buffer leds[], the frame last pushed to the strip, the *)
(* millis() clock and lastUpdate, and the position of the sketch.          *)
(* setup() is Init ; AutoConnect ; [PortalStep* ; PortalExit ;             *)
(* (ConnectOk | ConnectFail)], and one pass of loop() is                   *)
(*   LoopTop ; (WifiLost | NotDue | TickNight                              *)
(*              | TickDay ; Fetch ; [Parse ; ApplyEntry* ; CommitUpdate])  *)
(*           ; Delay                                                       *)
(* resp is what the network answers to the fetch of the pass.  The         *)
(* remaining variables (prevLeds, cyc, writes, sinceTick, uptime, lost)    *)
(* are history variables: they record what one pass did and never          *)
(* influence the program's behaviour, except that uptime and lost bound    *)
(* the runs that are explored.  cyc.hour is -1 when no hour is recorded.   *)
(***************************************************************************)
EXTENDS Integers, Sequences, FiniteSets, TLC

VARIABLES leds, strip, oob, now, lastUpdate, pc, trail, resp, doc, idx,
          prevLeds, cyc, writes, sinceTick, uptime, lost

vars == <<leds, strip, oob, now, lastUpdate, pc, trail, resp, doc, idx,
          prevLeds, cyc, writes, sinceTick, uptime, lost>>

(***************************************************************************)
(* Program constants                                                       *)
(***************************************************************************)
TRAIL_LENGTH == 5

updateInterval == 65000

\* unsigned long is 32 bits wide on the ESP32: millis() and lastUpdate wrap
\* at 2^32.  A value is kept as two 16-bit limbs, [hi, lo] for hi * 2^16 + lo.
LimbBase == 65536

\* delay(1000) at the end of every pass of loop()
LoopDelay == 1000

HTTP_CODE_OK == 200

liftNames == <<
  "Millerette", "Funiculaire", "Tommelet", "Combettes", "Vezaille",
  "Cachette", "Mont Blanc", "Clocheret", "Snowpark", "Arpette",
  "Carreley", "Vagere", "Charmettoger", "Transarc 1", "Villards",
  "Jardin Alpin", "Grizzly", "Lonzagne", "Vanoise Express Montchavin", "Parchey",
  "Peisey", "Vallandry", "Combe", "Cabri", "2300", "1Er Virages", "Derby",
  "Transarc 2", "Plan Vert", "Plagnettes", "Grand Col", "Arcabulle",
  "Eterlou", "Bois De L'ours", "Marmottes", "Varet", "Aiguille Rouge",
  "St Jacques", "Lanchettes", "Lac Des Combes", "Cabriolet", "Pre St Esprit",
  "Comborciere", "Rhonaz", "Droset", "Plan Des Violettes", "Replat" >>

LiftCount == Len(liftNames)

\* a strip with one LED per lift and none for the reserved LED 0
NUM_LEDS_Short == LiftCount

NUM_LEDS == 49

(***************************************************************************)
(* Bounds of the model                                                     *)
(***************************************************************************)
\* longest lifts object of a payload, in entries
MaxEntries == 2

\* passes of loop() in a row that find WiFi down
MaxLost == 1

\* milliseconds of run time explored after the first pass of loop()
MaxUptime == 65000

\* the same for the runs that start shortly before millis() wraps
MaxUptimeClock == 132000

\* the second tick of a run of SpecClock falls between WrapLead ms before
\* and WrapLead ms after the wrap of millis()
WrapLead == 2

(***************************************************************************)
(* Values                                                                  *)
(***************************************************************************)
LedRange == 0 .. (NUM_LEDS - 1)

AllBlack == [k \in LedRange |-> "Black"]

\* a C string pointer: the null pointer, or a pointer to the text s
NullPtr == [null |-> TRUE, s |-> ""]

CStr(t) == [null |-> FALSE, s |-> t]

\* JSON values of the lifts object: a string, or null
JsonString(t) == [type |-> "string", text |-> t]

JsonNull == [type |-> "null", text |-> ""]

\* JsonVariant to const char*: the text of a string, a null pointer otherwise
AsCString(v) == IF v.type = "string" THEN CStr(v.text) ELSE NullPtr

\* payloads: the empty String, text that is not JSON, or a JSON object whose
\* lifts member is missing, null, or an object (its pairs in document order)
EmptyString == [kind |-> "empty", lifts |-> "missing", entries |-> <<>>]

Malformed == [kind |-> "malformed", lifts |-> "missing", entries |-> <<>>]

JsonNoLifts == [kind |-> "json", lifts |-> "missing", entries |-> <<>>]

JsonNullLifts == [kind |-> "json", lifts |-> "null", entries |-> <<>>]

JsonLifts(es) == [kind |-> "json", lifts |-> "object", entries |-> es]

SeqsUpTo(S, n) == UNION {[1 .. k -> S] : k \in 0 .. n}

\* two registered lifts (Replat is the last of the registry) and one that is
\* not registered
PayloadNames == {"Derby", "Replat", "Bogus Lift"}

PayloadValues ==
  {JsonString("open"), JsonString("closed"), JsonString("hold"),
   JsonString("scheduled"), JsonString("Open"), JsonNull}

PayloadEntries == [name : PayloadNames, value : PayloadValues]

Bodies ==
  {EmptyString, Malformed, JsonNoLifts, JsonNullLifts}
    \cup {JsonLifts(es) : es \in SeqsUpTo(PayloadEntries, MaxEntries)}

\* bodies a server sends along with an error status
ErrorBodies ==
  {EmptyString, Malformed,
   JsonLifts(<<[name |-> "Derby", value |-> JsonString("open")]>>)}

\* what the network does to one call of fetchLiftData()
WifiDownResp ==
  [connected |-> FALSE, began |-> FALSE, code |-> 0, body |-> EmptyString]

BeginFailResp ==
  [connected |-> TRUE, began |-> FALSE, code |-> 0, body |-> EmptyString]

TransportErrResp ==
  [connected |-> TRUE, began |-> TRUE, code |-> -1, body |-> EmptyString]

HttpResp(c, b) == [connected |-> TRUE, began |-> TRUE, code |-> c, body |-> b]

Responses ==
  {WifiDownResp, BeginFailResp, TransportErrResp}
    \cup {HttpResp(HTTP_CODE_OK, b) : b \in Bodies}
    \cup {HttpResp(404, b) : b \in ErrorBodies}

ClockResponses ==
  {WifiDownResp,
   HttpResp(HTTP_CODE_OK, JsonLifts(<<[name |-> "Derby", value |-> JsonString("open")]>>)),
   HttpResp(HTTP_CODE_OK, JsonLifts(<<[name |-> "Derby", value |-> JsonString("closed")],
                                      [name |-> "Replat", value |-> JsonString("hold")]>>))}

\* timeClient.getHours()
Hours == 0 .. 23

NoCycle ==
  [connected |-> FALSE, ticked |-> FALSE, hour |-> -1, fetched |-> FALSE,
   cleared |-> FALSE, outcome |-> "idle", gap |-> -1]

(***************************************************************************)
(* setup() and configModeCallback()                                        *)
(***************************************************************************)
InStrip(k) == k >= 0 /\ k < NUM_LEDS

\* for (int j = 0; j < TRAIL_LENGTH; j++): leds[i - j - back] = color, where
\* the index is inside the strip
RECURSIVE PaintTrail(_, _, _, _, _)
PaintTrail(f, i, j, back, color) ==
  IF j < TRAIL_LENGTH
  THEN LET index == i - j - back
       IN PaintTrail(IF InStrip(index) THEN [f EXCEPT ![index] = color] ELSE f,
                     i, j + 1, back, color)
  ELSE f

\* one pass of the outer loop of configModeCallback: light the trail, show,
\* then darken the LEDs behind it
TrailStep(st, i) ==
  LET lit == PaintTrail(st.leds, i, 0, 0, "Blue")
  IN [leds |-> PaintTrail(lit, i, 0, 1, "Black"), strip |-> lit]

(***************************************************************************)
(* updateLEDStatus                                                         *)
(***************************************************************************)
RECURSIVE ScanFrom(_, _)
ScanFrom(liftName, i) ==
  IF i < LiftCount
  THEN IF liftNames[i + 1] = liftName THEN i + 1 ELSE ScanFrom(liftName, i + 1)
  ELSE -1

RECURSIVE ScanFallThrough(_, _)
ScanFallThrough(liftName, i) ==
  IF i < LiftCount
  THEN IF liftNames[i + 1] = liftName THEN i + 1 ELSE ScanFallThrough(liftName, i + 1)
  ELSE i

FindLedIndex_FallThrough(liftName) == ScanFallThrough(liftName, 0)

RECURSIVE ScanZeroBased(_, _)
ScanZeroBased(liftName, i) ==
  IF i < LiftCount
  THEN IF liftNames[i + 1] = liftName THEN i ELSE ScanZeroBased(liftName, i + 1)
  ELSE -1

FindLedIndex_ZeroBased(liftName) == ScanZeroBased(liftName, 0)

\* the linear scan over liftNames (C arrays are 0-based, tuples 1-based):
\* ledIndex = i + 1 for the first i with strcmp(liftNames[i], liftName) == 0
FindLedIndex(liftName) == ScanFrom(liftName, 0)

StatusColor_NoScheduled(status) ==
  IF status.null THEN "Black"
  ELSE IF status.s = "open" THEN "Green"
  ELSE IF status.s = "closed" THEN "Red"
  ELSE IF status.s = "hold" THEN "Yellow"
  ELSE "Black"

StatusColor(status) ==
  IF status.null THEN "Black"
  ELSE IF status.s = "open" THEN "Green"
  ELSE IF status.s = "closed" THEN "Red"
  ELSE IF status.s = "hold" \/ status.s = "scheduled" THEN "Yellow"
  ELSE "Black"

WriteGuard(ledIndex) == ledIndex > 0 /\ ledIndex <= NUM_LEDS

\* st = [leds, strip, oob, writes].  A write that passes the guard but lies
\* outside leds[] lands in whatever follows the array: the frame buffer
\* keeps its value and oob records the stray write.
updateLEDStatus(st, status, liftName) ==
  LET ledIndex == FindLedIndex(liftName)
      newColor == StatusColor(status)
  IN IF WriteGuard(ledIndex)
     THEN IF ledIndex \in DOMAIN st.leds
          THEN [st EXCEPT !.leds = [st.leds EXCEPT ![ledIndex] = newColor],
                          !.writes = st.writes \cup {ledIndex}]
          ELSE [st EXCEPT !.oob = TRUE,
                          !.writes = st.writes \cup {ledIndex}]
     ELSE st

(***************************************************************************)
(* fetchLiftData and parseAndDisplayLiftData                               *)
(***************************************************************************)
fetchLiftData_AnyCode(r) ==
  IF ~r.connected THEN EmptyString
  ELSE IF r.began THEN r.body
  ELSE EmptyString

fetchLiftData(r) ==
  IF ~r.connected THEN EmptyString
  ELSE IF r.began
       THEN IF r.code = HTTP_CODE_OK THEN r.body ELSE EmptyString
       ELSE EmptyString

isEmpty(payload) == payload.kind = "empty"

\* deserializeJson reports an error for anything that is not JSON
DeserializationError(payload) == payload.kind # "json"

\* JsonObject lifts = jsonDoc["lifts"]; lifts.isNull()
LiftsIsNull(payload) == payload.lifts # "object"

LoopBody_Show(st, lift) ==
  LET status == AsCString(lift.value)
      nst == IF status.null THEN st ELSE updateLEDStatus(st, status, lift.name)
  IN [nst EXCEPT !.strip = nst.leds]

\* the body of the for loop over the pairs of lifts
LoopBody(st, lift) ==
  LET status == AsCString(lift.value)
  IN IF status.null THEN st ELSE updateLEDStatus(st, status, lift.name)

(***************************************************************************)
(* loop()                                                                  *)
(***************************************************************************)
TimeGate_Exclusive(h) == h >= 8 /\ h < 17

\* currentHour >= 8 && currentHour <= 17
TimeGate(h) == h >= 8 /\ h <= 17

\* unsigned long arithmetic, modulo 2^32
ULong(n) == [hi |-> (n \div LimbBase) % LimbBase, lo |-> n % LimbBase]

UZero == ULong(0)

UAdd(a, b) ==
  LET lo == a.lo + b.lo
  IN [hi |-> (a.hi + b.hi + (lo \div LimbBase)) % LimbBase, lo |-> lo % LimbBase]

USub(a, b) ==
  LET borrow == IF a.lo < b.lo THEN 1 ELSE 0
  IN [hi |-> (a.hi - b.hi - borrow) % LimbBase, lo |-> (a.lo - b.lo) % LimbBase]

UGe(a, b) == a.hi > b.hi \/ (a.hi = b.hi /\ a.lo >= b.lo)

Due_NoSentinelClash(last, currentMillis) ==
  UGe(USub(currentMillis, last), ULong(updateInterval))

\* lastUpdate == 0 || currentMillis - lastUpdate >= updateInterval
Due(last, currentMillis) ==
  last = UZero \/ UGe(USub(currentMillis, last), ULong(updateInterval))

\* leds[0] = CRGB::Black; FastLED.show();
LoopTop(maxUp) ==
  /\ pc = "top"
  /\ uptime <= maxUp
  /\ leds' = [leds EXCEPT ![0] = "Black"]
  /\ strip' = leds'
  /\ pc' = "check"
  /\ UNCHANGED <<oob, now, lastUpdate, trail, resp, doc, idx,
                 prevLeds, cyc, writes, sinceTick, uptime, lost>>

\* WiFi.status() != WL_CONNECTED: delay(1000); return
WifiLost ==
  /\ pc = "check"
  /\ lost < MaxLost
  /\ lost' = lost + 1
  /\ pc' = "delay"
  /\ UNCHANGED <<leds, strip, oob, now, lastUpdate, trail, resp,
                 doc, idx, prevLeds, cyc, writes, sinceTick, uptime>>

\* connected, and the interval has not elapsed
NotDue ==
  /\ pc = "check"
  /\ ~Due(lastUpdate, now)
  /\ cyc' = [cyc EXCEPT !.connected = TRUE]
  /\ lost' = 0
  /\ pc' = "delay"
  /\ UNCHANGED <<leds, strip, oob, now, lastUpdate, trail, resp,
                 doc, idx, prevLeds, writes, sinceTick, uptime>>

\* a tick in the operating window: on to fetchLiftData()
TickDay ==
  /\ pc = "check"
  /\ Due(lastUpdate, now)
  /\ \E h \in Hours :
       /\ TimeGate(h)
       /\ cyc' = [cyc EXCEPT !.connected = TRUE, !.ticked = TRUE,
                             !.hour = h, !.gap = sinceTick]
  /\ lastUpdate' = now
  /\ sinceTick' = 0
  /\ lost' = 0
  /\ pc' = "fetch"
  /\ UNCHANGED <<leds, strip, oob, now, trail, resp, doc, idx,
                 prevLeds, writes, uptime>>

\* a tick outside the operating window: FastLED.clear(); FastLED.show();
TickNight ==
  /\ pc = "check"
  /\ Due(lastUpdate, now)
  /\ \E h \in Hours :
       /\ ~TimeGate(h)
       /\ cyc' = [cyc EXCEPT !.connected = TRUE, !.ticked = TRUE,
                             !.hour = h, !.gap = sinceTick,
                             !.cleared = TRUE, !.outcome = "night"]
  /\ lastUpdate' = now
  /\ sinceTick' = 0
  /\ lost' = 0
  /\ leds' = [k \in DOMAIN leds |-> "Black"]
  /\ strip' = leds'
  /\ pc' = "delay"
  /\ UNCHANGED <<oob, now, trail, resp, doc, idx, prevLeds, writes, uptime>>

\* String payload = fetchLiftData(); if (!payload.isEmpty()) ...
\* currentHour is not read after the gate: the record of the pass forgets
\* it here.
Fetch(resps) ==
  /\ pc = "fetch"
  /\ \E r \in resps :
       /\ resp' = r
       /\ IF isEmpty(fetchLiftData(r))
          THEN /\ pc' = "delay"
               /\ cyc' = [cyc EXCEPT !.fetched = TRUE, !.hour = -1,
                                     !.outcome = "fetchfail"]
          ELSE /\ pc' = "parse"
               /\ cyc' = [cyc EXCEPT !.fetched = TRUE, !.hour = -1]
  /\ UNCHANGED <<leds, strip, oob, now, lastUpdate, trail, doc, idx,
                 prevLeds, writes, sinceTick, uptime, lost>>

\* as Parse, but the frame buffer is cleared before the entries are applied
Parse_ClearFirst ==
  /\ pc = "parse"
  /\ LET payload == fetchLiftData(resp)
     IN IF DeserializationError(payload)
        THEN /\ pc' = "delay"
             /\ cyc' = [cyc EXCEPT !.outcome = "parsefail"]
             /\ UNCHANGED <<doc, leds>>
        ELSE IF LiftsIsNull(payload)
        THEN /\ pc' = "delay"
             /\ cyc' = [cyc EXCEPT !.outcome = "nolifts"]
             /\ UNCHANGED <<doc, leds>>
        ELSE /\ pc' = "apply"
             /\ cyc' = [cyc EXCEPT !.outcome = "update"]
             /\ doc' = payload.entries
             /\ leds' = [k \in DOMAIN leds |-> "Black"]
  /\ idx' = 1
  /\ UNCHANGED <<strip, oob, now, lastUpdate, trail, resp,
                 prevLeds, writes, sinceTick, uptime, lost>>

\* parseAndDisplayLiftData up to the for loop
Parse ==
  /\ pc = "parse"
  /\ LET payload == fetchLiftData(resp)
     IN IF DeserializationError(payload)
        THEN /\ pc' = "delay"
             /\ cyc' = [cyc EXCEPT !.outcome = "parsefail"]
             /\ UNCHANGED doc
        ELSE IF LiftsIsNull(payload)
        THEN /\ pc' = "delay"
             /\ cyc' = [cyc EXCEPT !.outcome = "nolifts"]
             /\ UNCHANGED doc
        ELSE /\ pc' = "apply"
             /\ cyc' = [cyc EXCEPT !.outcome = "update"]
             /\ doc' = payload.entries
  /\ idx' = 1
  /\ UNCHANGED <<leds, strip, oob, now, lastUpdate, trail, resp,
                 prevLeds, writes, sinceTick, uptime, lost>>

\* one pass of  for (JsonPair lift : lifts)
ApplyEntry ==
  /\ pc = "apply"
  /\ idx <= Len(doc)
  /\ LET st  == [leds |-> leds, strip |-> strip, oob |-> oob, writes |-> writes]
         nst == LoopBody(st, doc[idx])
     IN /\ leds' = nst.leds
        /\ strip' = nst.strip
        /\ oob' = nst.oob
        /\ writes' = nst.writes
  /\ idx' = idx + 1
  /\ UNCHANGED <<now, lastUpdate, pc, trail, resp, doc,
                 prevLeds, cyc, sinceTick, uptime, lost>>

\* FastLED.show() after the loop
CommitUpdate ==
  /\ pc = "apply"
  /\ idx > Len(doc)
  /\ strip' = leds
  /\ pc' = "delay"
  /\ UNCHANGED <<leds, oob, now, lastUpdate, trail, resp, doc, idx,
                 prevLeds, cyc, writes, sinceTick, uptime, lost>>

\* delay(1000): the pass of loop() ends LoopDelay ms later.  The record of
\* the pass is dropped, and prevLeds keeps the frame buffer the pass leaves.
Delay ==
  /\ pc = "delay"
  /\ now' = UAdd(now, ULong(LoopDelay))
  /\ uptime' = uptime + LoopDelay
  /\ sinceTick' = IF sinceTick = -1 THEN -1 ELSE sinceTick + LoopDelay
  /\ resp' = WifiDownResp
  /\ doc' = <<>>
  /\ idx' = 1
  /\ prevLeds' = leds
  /\ cyc' = NoCycle
  /\ writes' = {}
  /\ pc' = "top"
  /\ UNCHANGED <<leds, strip, oob, lastUpdate, trail, lost>>

(***************************************************************************)
(* setup()                                                                 *)
(***************************************************************************)
\* millis() when setup() returns after a boot
BootStarts == {ULong(3000)}

\* wifiManager.autoConnect(): the saved network connects, or the config
\* portal opens and configModeCallback runs
AutoConnect ==
  /\ pc = "setup"
  /\ \/ /\ pc' = "top"
        /\ now' \in BootStarts
     \/ /\ pc' = "portal"
        /\ now' = now
  /\ trail' = 0
  /\ UNCHANGED <<leds, strip, oob, lastUpdate, resp, doc, idx,
                 prevLeds, cyc, writes, sinceTick, uptime, lost>>

\* configModeCallback: one pass of  for (i = 0; i < NUM_LEDS + TRAIL_LENGTH; i++)
PortalStep ==
  /\ pc = "portal"
  /\ trail < NUM_LEDS + TRAIL_LENGTH
  /\ LET nst == TrailStep([leds |-> leds, strip |-> strip], trail)
     IN /\ leds' = nst.leds
        /\ strip' = nst.strip
  /\ trail' = trail + 1
  /\ UNCHANGED <<oob, now, lastUpdate, pc, resp, doc, idx,
                 prevLeds, cyc, writes, sinceTick, uptime, lost>>

\* configModeCallback returns and the portal runs until it is configured or
\* its timeout of 180 s is hit
PortalExit ==
  /\ pc = "portal"
  /\ trail >= NUM_LEDS + TRAIL_LENGTH
  /\ pc' = "connect"
  /\ trail' = 0
  /\ UNCHANGED <<leds, strip, oob, now, lastUpdate, resp, doc, idx,
                 prevLeds, cyc, writes, sinceTick, uptime, lost>>

\* autoConnect returns true: setup() ends
ConnectOk ==
  /\ pc = "connect"
  /\ pc' = "top"
  /\ now' \in BootStarts
  /\ UNCHANGED <<leds, strip, oob, lastUpdate, trail, resp, doc, idx,
                 prevLeds, cyc, writes, sinceTick, uptime, lost>>

\* autoConnect returns false: delay(3000); ESP.restart(), and setup() runs
\* again from a cleared strip
ConnectFail ==
  /\ pc = "connect"
  /\ pc' = "setup"
  /\ leds' = AllBlack
  /\ strip' = AllBlack
  /\ trail' = 0
  /\ UNCHANGED <<oob, now, lastUpdate, resp, doc, idx,
                 prevLeds, cyc, writes, sinceTick, uptime, lost>>

(***************************************************************************)
(* Specifications                                                          *)
(***************************************************************************)
\* the globals as constructed, after FastLED.clear(true); FastLED.show()
Fresh ==
  /\ leds = AllBlack
  /\ strip = AllBlack
  /\ oob = FALSE
  /\ lastUpdate = UZero
  /\ trail = 0
  /\ resp = WifiDownResp
  /\ doc = <<>>
  /\ idx = 1
  /\ prevLeds = AllBlack
  /\ cyc = NoCycle
  /\ writes = {}
  /\ sinceTick = -1
  /\ uptime = 0
  /\ lost = 0

Init ==
  /\ Fresh
  /\ pc = "setup"
  /\ now = UZero

Next ==
  \/ AutoConnect
  \/ PortalStep
  \/ PortalExit
  \/ ConnectOk
  \/ ConnectFail
  \/ LoopTop(MaxUptime)
  \/ WifiLost
  \/ NotDue
  \/ TickDay
  \/ TickNight
  \/ Fetch(Responses)
  \/ Parse
  \/ ApplyEntry
  \/ CommitUpdate
  \/ Delay

Spec == Init /\ [][Next]_vars

\* millis() at a pass of loop() one poll interval before the counter wraps:
\* the sketch has been up for 49.7 days and every pass so far found WiFi
\* down (WifiLost ; Delay changes nothing but the clock, so Next reaches
\* these states from Init when its bounds are lifted)
ClockStarts ==
  {USub(ULong(WrapLead), ULong(updateInterval + w)) : w \in 0 .. (2 * WrapLead)}

InitClock ==
  /\ Fresh
  /\ pc = "top"
  /\ now \in ClockStarts

NextClock ==
  \/ LoopTop(MaxUptimeClock)
  \/ WifiLost
  \/ NotDue
  \/ TickDay
  \/ TickNight
  \/ Fetch(ClockResponses)
  \/ Parse
  \/ ApplyEntry
  \/ CommitUpdate
  \/ Delay

SpecClock == InitClock /\ [][NextClock]_vars

(***************************************************************************)
(* Vocabulary of the properties.  These definitions restate the registry   *)
(* and the colour table independently of the operators that model the      *)
(* code above.                                                             *)
(***************************************************************************)
Registered(n) == \E i \in 1 .. Len(liftNames) : liftNames[i] = n

\* registry position (0-based) + 1 of a registered name: its first occurrence
SlotOf(n) ==
  CHOOSE i \in 1 .. Len(liftNames) :
    liftNames[i] = n /\ \A j \in 1 .. (i - 1) : liftNames[j] # n

TableColor(t) ==
  CASE t = "open" -> "Green"
    [] t = "closed" -> "Red"
    [] t \in {"hold", "scheduled"} -> "Yellow"
    [] OTHER -> "Black"

StatusTexts == {"open", "closed", "hold", "scheduled", "Open", "unknown", ""}

IsBlack(f) == \A k \in DOMAIN f : f[k] = "Black"

\* the pass has done all its work and is about to wait
PassDone == pc = "delay"

\* the fetch of this pass returned a body with status 200
Delivered == cyc.fetched /\ resp.connected /\ resp.began /\ resp.code = 200

\* the fetch of this pass delivered a JSON document with a lifts object
DeliveredLifts ==
  Delivered /\ resp.body.kind = "json" /\ resp.body.lifts = "object"

Entries == resp.body.entries

\* entry i is the last entry of the payload for its lift name
LastFor(i) == \A j \in (i + 1) .. Len(Entries) : Entries[j].name # Entries[i].name

\* the frame buffer as the pass found it: slot 0 is forced off at the top
FrameBefore == [prevLeds EXCEPT ![0] = "Black"]

LoopPcs == {"top", "check", "fetch", "parse", "apply", "delay"}

(***************************************************************************)
(* C1: a payload entry with a null status for a registered lift turns that *)
(* lift's slot (registry position + 1) Black, whatever it showed before.   *)
(* Stated for the last entry of the payload that names the lift.           *)
(***************************************************************************)
C1_NullEntryGoesBlack ==
  (PassDone /\ DeliveredLifts) =>
    \A i \in 1 .. Len(Entries) :
      (Entries[i].value = JsonNull /\ Registered(Entries[i].name) /\ LastFor(i))
        => leds[SlotOf(Entries[i].name)] = "Black"

(***************************************************************************)
(* C2: the status to colour mapping of updateLEDStatus is total with a     *)
(* closed range: open is Green, closed is Red, hold and scheduled are      *)
(* Yellow, null and any other text are Black; and the slot of a registered *)
(* lift holds exactly that colour right after its entry has been applied.  *)
(***************************************************************************)
C2_StatusColourTable ==
  /\ StatusColor(NullPtr) = "Black"
  /\ \A t \in StatusTexts : StatusColor(CStr(t)) = TableColor(t)
  /\ (pc = "apply" /\ idx > 1 /\ doc[idx - 1].value.type = "string"
        /\ Registered(doc[idx - 1].name))
       => /\ leds[SlotOf(doc[idx - 1].name)] = TableColor(doc[idx - 1].value.text)
          /\ leds[SlotOf(doc[idx - 1].name)] \in {"Black", "Green", "Red", "Yellow"}

C2_Witness ==
  /\ pc = "apply" /\ idx = 3
  /\ doc[1].name = "Derby" /\ doc[1].value = JsonString("closed")
  /\ doc[2].name = "Derby" /\ doc[2].value = JsonString("scheduled")
  /\ leds[27] = "Yellow"

(***************************************************************************)
(* C3: for a lift name that is not in the registry (exact, case-sensitive  *)
(* match) updateLEDStatus changes nothing, whatever the status and the     *)
(* frame (every frame a pass of loop() starts from is tried); a payload    *)
(* that names only unregistered lifts changes no LED.                      *)
(***************************************************************************)
UnregisteredNames == {"Bogus Lift", "derby", "DERBY", "Replat ", ""}

C3_UnregisteredNameNoChange ==
  /\ pc = "check" =>
       LET st == [leds |-> leds, strip |-> strip, oob |-> oob, writes |-> writes]
       IN \A n \in UnregisteredNames :
            \A s \in {NullPtr} \cup {CStr(t) : t \in StatusTexts} :
              ~Registered(n) /\ updateLEDStatus(st, s, n) = st
  /\ (PassDone /\ DeliveredLifts
        /\ \A i \in 1 .. Len(Entries) : ~Registered(Entries[i].name))
       => leds = prevLeds /\ writes = {}

C3_Witness ==
  /\ PassDone /\ DeliveredLifts /\ Len(Entries) = 2
  /\ Entries[1] = [name |-> "Bogus Lift", value |-> JsonString("open")]
  /\ Entries[2] = [name |-> "Bogus Lift", value |-> JsonString("closed")]
  /\ prevLeds[27] = "Green" /\ prevLeds[47] = "Yellow"
  /\ leds = prevLeds

(***************************************************************************)
(* C4: at every tick the hour decides the branch: in 8..17 (8 and 17 in,   *)
(* 7 and 18 out) the fetch is attempted and nothing is cleared; otherwise  *)
(* every slot is set to Black and committed, and no fetch is attempted.    *)
(***************************************************************************)
C4_TimeGateDecidesBranch ==
  /\ (cyc.ticked /\ cyc.hour # -1) =>
       IF cyc.hour \in 8 .. 17
       THEN pc = "fetch" /\ ~cyc.cleared /\ leds = FrameBefore
       ELSE /\ pc = "delay" /\ cyc.cleared /\ ~cyc.fetched
            /\ IsBlack(leds) /\ IsBlack(strip)
  /\ cyc.fetched => (cyc.ticked /\ ~cyc.cleared)
  /\ (pc \in {"fetch", "parse", "apply"}) => (cyc.ticked /\ ~cyc.cleared)

C4_Witness ==
  /\ cyc.ticked /\ cyc.hour = 17 /\ pc = "fetch"
  /\ leds[27] = "Red" /\ leds[47] = "Green"

(***************************************************************************)
(* C5: a pass whose fetch fails (WiFi down, connection cannot begin,       *)
(* status other than 200, empty body) or whose parse fails (malformed      *)
(* JSON, lifts missing or null, empty lifts object) leaves every slot of   *)
(* the frame buffer as the previous pass left it.                          *)
(***************************************************************************)
FetchFails(r) ==
  ~r.connected \/ ~r.began \/ r.code # 200 \/ r.body = EmptyString

ParseFails(b) ==
  \/ b.kind = "malformed"
  \/ b.lifts \in {"missing", "null"}
  \/ (b.lifts = "object" /\ b.entries = <<>>)

C5_FailedCycleKeepsFrame ==
  (PassDone /\ cyc.fetched /\ (FetchFails(resp) \/ ParseFails(resp.body)))
    => leds = prevLeds

C5_Witness ==
  /\ PassDone /\ cyc.fetched
  /\ resp.code = 404 /\ resp.body.lifts = "object" /\ Len(resp.body.entries) = 1
  /\ prevLeds[27] = "Red"
  /\ leds = prevLeds

(***************************************************************************)
(* C6: after an update from a payload whose entries all carry text         *)
(* statuses, the slot of every registered lift named in the payload holds  *)
(* the colour of that lift's last status in document order, and every      *)
(* other slot keeps the colour it had before.                              *)
(***************************************************************************)
C6_UpdateOverridesNamedSlots ==
  (PassDone /\ DeliveredLifts
     /\ \A i \in 1 .. Len(Entries) : Entries[i].value.type = "string")
    => LET named == {i \in 1 .. Len(Entries) : Registered(Entries[i].name)}
           slots == {SlotOf(Entries[i].name) : i \in named}
       IN /\ \A i \in named :
               LastFor(i) =>
                 leds[SlotOf(Entries[i].name)] = TableColor(Entries[i].value.text)
          /\ \A k \in (0 .. (NUM_LEDS - 1)) \ slots : leds[k] = prevLeds[k]

C6_Witness ==
  /\ PassDone /\ DeliveredLifts /\ Len(Entries) = 2
  /\ Entries[1] = [name |-> "Derby", value |-> JsonString("open")]
  /\ Entries[2] = [name |-> "Derby", value |-> JsonString("closed")]
  /\ prevLeds[27] = "Yellow" /\ prevLeds[47] = "Green"
  /\ leds[27] = "Red" /\ leds[47] = "Green"

(***************************************************************************)
(* C7: the strip never shows a partially updated frame: while the entries  *)
(* of a payload are being applied the strip still shows the frame from     *)
(* before the update, and once the pass is done it shows the frame with    *)
(* all entries applied.                                                    *)
(***************************************************************************)
C7_NoPartialFrameShown ==
  /\ pc = "apply" => strip = FrameBefore
  /\ (PassDone /\ cyc.outcome = "update") => strip = leds

C7_Witness ==
  /\ pc = "apply" /\ Len(doc) = 2 /\ idx = 2
  /\ leds # strip
  /\ strip = FrameBefore

(***************************************************************************)
(* C8: slot 0 is reserved: once setup() has completed it is Black in the   *)
(* frame buffer and in every frame loop() commits, and a lift update only  *)
(* writes the slot registry position + 1 of its lift, never slot 0.        *)
(***************************************************************************)
C8_SlotZeroReserved ==
  pc \in LoopPcs =>
    /\ strip[0] = "Black"
    /\ (pc # "top" => leds[0] = "Black")
    /\ 0 \notin writes
    /\ writes \subseteq {SlotOf(doc[i].name) : i \in {j \in 1 .. (idx - 1) : Registered(doc[j].name)}}

C8_Witness ==
  /\ PassDone /\ cyc.outcome = "update"
  /\ writes = {27, 47}
  /\ strip[0] = "Black" /\ strip[27] = "Green"

(***************************************************************************)
(* C9: every write of updateLEDStatus lands inside leds[0 .. NUM_LEDS-1]:  *)
(* the index is in 1 .. LiftCount and LiftCount is at most NUM_LEDS - 1,   *)
(* although the guard would admit NUM_LEDS.                                *)
(***************************************************************************)
C9_WritesInsideArray ==
  /\ ~oob
  /\ writes \subseteq 0 .. (NUM_LEDS - 1)
  /\ writes \subseteq 1 .. LiftCount
  /\ LiftCount <= NUM_LEDS - 1

C9_Witness == LiftCount \in writes /\ leds[LiftCount] = "Green"

(***************************************************************************)
(* C10: the first pass of loop() with WiFi connected ticks, and between    *)
(* two consecutive ticks at least updateInterval ms elapse, also when      *)
(* millis() wraps and lastUpdate is assigned a wrapped clock value.        *)
(***************************************************************************)
C10_TicksSpacedByInterval ==
  /\ (cyc.connected /\ ~cyc.ticked) => sinceTick # -1
  /\ (cyc.ticked /\ cyc.gap # -1) => cyc.gap >= updateInterval

TypeOK ==
  /\ leds \in [LedRange -> {"Black", "Green", "Red", "Yellow", "Blue"}]
  /\ strip \in [LedRange -> {"Black", "Green", "Red", "Yellow", "Blue"}]
  /\ oob \in BOOLEAN
  /\ now \in [hi : 0 .. (LimbBase - 1), lo : 0 .. (LimbBase - 1)]
  /\ lastUpdate \in [hi : 0 .. (LimbBase - 1), lo : 0 .. (LimbBase - 1)]
  /\ pc \in {"setup", "portal", "connect", "top", "check", "fetch", "parse", "apply", "delay"}
  /\ idx \in 1 .. (Len(doc) + 1)
====
